---- MODULE Spec2Model ----
(***************************************************************************)
(* ColdFront: project and allocation views over the relational model.      *)
(* Each action is one HTTP request handled by one view (dispatch, the      *)
(* permission mixins, then get/post), or one call of a project utility.    *)
(* Rows are keyed by their natural keys; a missing row is a "None" record. *)
(***************************************************************************)
EXTENDS Integers, Sequences, FiniteSets, TLC

\* ------------------------------------------------------------------ bounds
MaxTime == 1
MaxAllocations == 3
MaxLimit == 2
MaxRequests == 2

\* ---------------------------------------------------------------- universe
Users == {"root", "ann", "bob"}
Projects == {1, 2}
Allocations == 1..MaxAllocations
Resources == {"r1", "r2"}
Times == 0..MaxTime
Requests == 1..MaxRequests
NoDate == -1
NoLimit == -1

\* settings the views read at import time: the default allocation length, and a site
\* that offers one extension
ALLOCATION_DEFAULT_ALLOCATION_LENGTH == 365
ALLOCATION_CHANGE_REQUEST_EXTENSION_DAYS == {30}

\* django.contrib.auth User.is_superuser
is_superuser(u) == u = "root"

\* Project.pi (no view of the repository changes it)
pi == (1 :> "ann") @@ (2 :> "bob")

ProjectStatusChoices == {"New", "Active", "Archived"}
ProjectUserRoleChoices == {"User", "Manager"}
ProjectUserStatusChoices == {"Active", "Pending Remove", "Denied", "Removed"}

NoProjectUser == [status |-> "None", role |-> "None", enable_notifications |-> FALSE]
NoAllocation == [project |-> 0, status |-> "None", resource |-> "None", start_date |-> NoDate,
                 end_date |-> NoDate, is_locked |-> FALSE, is_changeable |-> FALSE]

VARIABLES
    settings,         \* django.conf.settings / coldfront.config values read by the code
    now,              \* datetime.datetime.now()
    project,          \* Project rows: pk -> fields
    project_user,     \* ProjectUser rows: project pk -> user -> fields
    allocation,       \* Allocation rows: pk -> fields
    allocation_user,  \* AllocationUser rows: allocation pk -> user -> status name
    allocation_limit, \* the allocation_limit attribute of each resource (NoLimit: none)
    change_request,   \* the AllocationChangeRequest row (on allocation 1)
    attribute_change, \* its AllocationAttributeChangeRequest row
    allocation_attribute, \* the AllocationAttribute row that change is about
    request,          \* the request (or utility call) handled last
    response,         \* its response: kind and message
    sent,             \* signals and mails sent while handling it
    in_flight         \* AllocationCreateView requests being processed at the same time

vars == <<settings, now, project, project_user, allocation, allocation_user, allocation_limit,
          change_request, attribute_change, allocation_attribute, request, response, sent,
          in_flight>>

\* the tables of allocation change requests
change_tables == <<change_request, attribute_change, allocation_attribute>>

\* ----------------------------------------------------------- text helpers
Upper(c) == CASE c = "b" -> "B" [] c = "f" -> "F" [] c = "o" -> "O" [] OTHER -> c

\* str.upper()
StrUpper(s) == [i \in 1..Len(s) |-> Upper(s[i])]

\* str(project_pk) for a one-digit pk
StrOfPk(pk) == <<CASE pk = 1 -> "1" [] pk = 2 -> "2" [] pk = 3 -> "3" [] OTHER -> "9">>

\* str.zfill(padding)
Zfill(s, padding) ==
    IF Len(s) >= padding THEN s ELSE [i \in 1..(padding - Len(s)) |-> "0"] \o s

generate_project_code(project_code, project_pk, padding) ==
    StrUpper(project_code) \o Zfill(StrOfPk(project_pk), padding)

\* add_project_code_if_missing: the project row after the call
add_project_code_if_missing(proj, pk) ==
    IF settings.PROJECT_CODE # <<>> /\ proj.project_code = <<>>
    THEN [proj EXCEPT !.project_code =
              generate_project_code(settings.PROJECT_CODE, pk, settings.PROJECT_CODE_PADDING)]
    ELSE proj

\* project_is_archived that takes every project for a live one
project_is_archived_never(proj) == proj.status \notin {"Active", "New", "Archived"}

project_is_archived(proj) == proj.status \notin {"Active", "New"}

user_is_pi_or_manager(u, p) ==
    \/ is_superuser(u)
    \/ pi[p] = u
    \/ (project_user[p][u].role = "Manager" /\ project_user[p][u].status = "Active")

\* every request is handled at its own time: datetime.datetime.now() advances
Clock == now' = now + 1

\* ------------------------------------------------------------ responses
Resp(kind, message) == [kind |-> kind, message |-> message]

\* the POST data of a request that carries none of the fields below
NoForm == [action |-> "", project |-> 0, resource |-> "", pi_selected |-> FALSE,
           users |-> {}, allocations |-> {}]

\* a request with the part of its POST data the properties below refer to
ReqForm(view, method, user, pk, form) ==
    [view |-> view, method |-> method, user |-> user, pk |-> pk, form |-> form @@ NoForm]

Req(view, method, user, pk) == ReqForm(view, method, user, pk, NoForm)

Methods == {"GET", "POST"}

\* a worker that is not handling an AllocationCreateView request
NoRequest == [pc |-> "none", user |-> "none", pk |-> 0,
              form |-> [project |-> 0, resource |-> "", users |-> {}]]

NoRequests == [i \in Requests |-> NoRequest]

\* one signal or mail, with the pk it is sent for
Signal(name, pk) == [signal |-> name, pk |-> pk]

\* users in the order of order_by("user__username")
UserOrder == <<"ann", "bob", "root">>

\* Resource attributes (resource tables are not written by any view modelled here)
resource_has_eula(r) == r = "r1"

AllocationStatusChoices == {"Active", "New", "Renewal Requested", "Denied", "Revoked", "Expired",
                            "Paid", "Payment Pending", "Payment Requested", "Payment Declined"}
AllocationUserStatusChoices == {"Active", "Removed", "PendingEULA", "DeclinedEULA", "Error"}

\* project.allocation_set
allocation_set(alloc, p) == {a \in Allocations : alloc[a].status # "None" /\ alloc[a].project = p}

\* ------------------------------------------------- user_management_utils
\* add_user_to_project: the ProjectUser table and the signals sent
add_user_to_project(pu, p, u, role_choice, send_signals) ==
    [project_user |->
        IF pu[p][u].status # "None"
        THEN [pu EXCEPT ![p][u].role = role_choice, ![p][u].status = "Active"]
        ELSE [pu EXCEPT ![p][u] = [status |-> "Active", role |-> role_choice,
                                   enable_notifications |-> TRUE]],
     created |-> pu[p][u].status = "None",
     sent |-> IF send_signals THEN <<Signal("project_activate_user", <<p, u>>)>> ELSE <<>>]

\* remove_user_from_allocation: the AllocationUser table and the signals sent
remove_user_from_allocation(au, a, u, send_signals) ==
    IF au[a][u] = "Active"
    THEN [allocation_user |-> [au EXCEPT ![a][u] = "Removed"],
          sent |-> IF send_signals THEN <<Signal("allocation_remove_user", <<a, u>>)>> ELSE <<>>]
    ELSE [allocation_user |-> au, sent |-> <<>>]

\* the loop of remove_user_from_project over allocations 1..n of the project
RECURSIVE RemoveFromAllocations(_, _, _, _, _, _)
RemoveFromAllocations(alloc, au, p, u, send_signals, n) ==
    IF n = 0 THEN [allocation_user |-> au, sent |-> <<>>]
    ELSE LET before == RemoveFromAllocations(alloc, au, p, u, send_signals, n - 1) IN
         IF n \in allocation_set(alloc, p)
            /\ alloc[n].status \in {"Active", "New", "Renewal Requested"}
         THEN LET r == remove_user_from_allocation(before.allocation_user, n, u, send_signals) IN
              [allocation_user |-> r.allocation_user, sent |-> before.sent \o r.sent]
         ELSE before

\* remove_user_from_project without its guard on the PI
remove_user_from_project_any(pu, alloc, au, p, u, send_signals) ==
    IF pu[p][u].status = "Active"
    THEN LET r == RemoveFromAllocations(alloc, au, p, u, send_signals, MaxAllocations) IN
         [result |-> TRUE,
          project_user |-> [pu EXCEPT ![p][u].status = "Removed"],
          allocation_user |-> r.allocation_user,
          sent |-> (IF send_signals THEN <<Signal("project_remove_user", <<p, u>>)>> ELSE <<>>)
                   \o r.sent]
    ELSE [result |-> FALSE, project_user |-> pu, allocation_user |-> au, sent |-> <<>>]

remove_user_from_project(pu, alloc, au, p, u, send_signals) ==
    IF pi[p] = u
    THEN [result |-> FALSE, project_user |-> pu, allocation_user |-> au, sent |-> <<>>]
    ELSE IF pu[p][u].status = "Active"
    THEN LET r == RemoveFromAllocations(alloc, au, p, u, send_signals, MaxAllocations) IN
         [result |-> TRUE,
          project_user |-> [pu EXCEPT ![p][u].status = "Removed"],
          allocation_user |-> r.allocation_user,
          sent |-> (IF send_signals THEN <<Signal("project_remove_user", <<p, u>>)>> ELSE <<>>)
                   \o r.sent]
    ELSE [result |-> FALSE, project_user |-> pu, allocation_user |-> au, sent |-> <<>>]

\* add_user_to_allocation: the AllocationUser table and the signals sent
add_user_to_allocation(au, a, u, user_status_choice, send_signals_on_activate) ==
    LET activated == au[a][u] # user_status_choice /\ user_status_choice = "Active" IN
    [allocation_user |-> IF au[a][u] # user_status_choice
                         THEN [au EXCEPT ![a][u] = user_status_choice] ELSE au,
     sent |-> IF send_signals_on_activate /\ activated
              THEN <<Signal("allocation_activate_user", <<a, u>>)>> ELSE <<>>]

\* Allocation.get_eula(): the eula attribute of the allocation's resource
get_eula(alloc, a) == resource_has_eula(alloc[a].resource)

\* determine_eula_status_for_allocation_user without its test of the row's status
determine_eula_status_for_allocation_user_pending(alloc, au, a, u) ==
    IF settings.ALLOCATION_EULA_ENABLE
    THEN IF get_eula(alloc, a) THEN "PendingEULA" ELSE "Active"
    ELSE "Active"

\* au[a][u] = "None" stands for allocationuser_set.filter(user=user_obj) being empty
determine_eula_status_for_allocation_user(alloc, au, a, u) ==
    IF settings.ALLOCATION_EULA_ENABLE
    THEN IF get_eula(alloc, a)
         THEN IF au[a][u] # "None"
              THEN IF au[a][u] # "Active" THEN "PendingEULA" ELSE "Active"
              ELSE "PendingEULA"
         ELSE "Active"
    ELSE "Active"

\* ------------------------------------------------------- ProjectUpdateView
ProjectFormData == {[title |-> "t1", description |-> "d1", field_of_science |-> "f1"],
                    [title |-> "t2", description |-> "d2", field_of_science |-> "f2"],
                    [title |-> "", description |-> "d2", field_of_science |-> "f2"]}

\* ModelForm over title, description, field_of_science: title is required
ProjectFormIsValid(form) == form.title # ""

ProjectUpdateView(u, p, method) ==
    LET coded == add_project_code_if_missing(project[p], p) IN
    /\ request' = Req("ProjectUpdateView", method, u, p)
    /\ Clock /\ UNCHANGED <<settings, allocation_limit, in_flight, change_tables, project_user, allocation, allocation_user>>
    /\ IF project_is_archived(coded)
       THEN /\ project' = [project EXCEPT ![p] = coded]
            /\ response' = Resp("redirect", "You cannot update an archived project.")
            /\ sent' = <<>>
       ELSE IF ~user_is_pi_or_manager(u, p)
       THEN /\ project' = [project EXCEPT ![p] = coded]
            /\ response' = Resp("forbidden", "")
            /\ sent' = <<>>
       ELSE IF method = "GET"
       THEN /\ project' = [project EXCEPT ![p] = coded]
            /\ response' = Resp("render", "")
            /\ sent' = <<>>
       ELSE \E form \in ProjectFormData :
            IF ~ProjectFormIsValid(form)
            THEN /\ project' = [project EXCEPT ![p] = coded]
                 /\ response' = Resp("render", "form invalid")
                 /\ sent' = <<>>
            ELSE /\ project' = [project EXCEPT ![p] = [coded EXCEPT
                                     !.title = form.title,
                                     !.description = form.description,
                                     !.field_of_science = form.field_of_science]]
                 /\ response' = Resp("redirect", "Project updated.")
                 /\ sent' = <<Signal("project_update", p)>>

\* ------------------------------------------------ ProjectArchiveProjectView
\* the archiving loop run over every allocation of the project that is not yet Expired
ArchiveAllocations_all(alloc, p, end_date) ==
    [a \in Allocations |->
        IF a \in allocation_set(alloc, p) /\ alloc[a].status # "Expired"
        THEN [alloc[a] EXCEPT !.status = "Expired", !.end_date = end_date]
        ELSE alloc[a]]

\* the loop over project.allocation_set.filter(status__name="Active")
ArchiveAllocations(alloc, p, end_date) ==
    [a \in Allocations |->
        IF a \in allocation_set(alloc, p) /\ alloc[a].status = "Active"
        THEN [alloc[a] EXCEPT !.status = "Expired", !.end_date = end_date]
        ELSE alloc[a]]

ProjectArchiveProjectView(u, p, method) ==
    /\ request' = Req("ProjectArchiveProjectView", method, u, p)
    /\ Clock /\ UNCHANGED <<settings, allocation_limit, in_flight, change_tables, project_user, allocation_user>>
    /\ IF ~user_is_pi_or_manager(u, p)
       THEN /\ response' = Resp("forbidden", "")
            /\ sent' = <<>>
            /\ UNCHANGED <<project, allocation>>
       ELSE IF method = "GET"
       THEN /\ response' = Resp("render", "")
            /\ sent' = <<>>
            /\ UNCHANGED <<project, allocation>>
       ELSE /\ project' = [project EXCEPT ![p].status = "Archived"]
            /\ allocation' = ArchiveAllocations(allocation, p, now)
            /\ sent' = <<Signal("project_archive", p)>>
            /\ response' = Resp("redirect", "")

\* --------------------------------------------------- ProjectRemoveUsersView
\* get_users_to_remove: Active project users other than the requester and the PI
get_users_to_remove(u, p) ==
    {x \in Users : project_user[p][x].status = "Active" /\ x # u /\ x # pi[p]}

\* the loop of post over the selected forms, in username order
RECURSIVE RemoveSelected(_, _, _, _, _, _)
RemoveSelected(pu, alloc, au, p, selected, n) ==
    IF n = 0 THEN [project_user |-> pu, allocation_user |-> au, sent |-> <<>>, count |-> 0]
    ELSE LET before == RemoveSelected(pu, alloc, au, p, selected, n - 1) IN
         IF UserOrder[n] \in selected
         THEN LET r == remove_user_from_project(before.project_user, alloc,
                                                before.allocation_user, p, UserOrder[n], TRUE) IN
              [project_user |-> r.project_user, allocation_user |-> r.allocation_user,
               sent |-> before.sent \o r.sent,
               count |-> before.count + (IF r.result THEN 1 ELSE 0)]
         ELSE before

ProjectRemoveUsersView(u, p, method) ==
    /\ request' = Req("ProjectRemoveUsersView", method, u, p)
    /\ Clock /\ UNCHANGED <<settings, allocation_limit, in_flight, change_tables, project, allocation>>
    /\ IF project_is_archived(project[p])
       THEN /\ response' = Resp("redirect", "You cannot remove users from an archived project.")
            /\ sent' = <<>>
            /\ UNCHANGED <<project_user, allocation_user>>
       ELSE IF ~user_is_pi_or_manager(u, p)
       THEN /\ response' = Resp("forbidden", "")
            /\ sent' = <<>>
            /\ UNCHANGED <<project_user, allocation_user>>
       ELSE IF method = "GET"
       THEN /\ response' = Resp("render", "")
            /\ sent' = <<>>
            /\ UNCHANGED <<project_user, allocation_user>>
       ELSE \/ /\ response' = Resp("redirect", "formset errors")
               /\ sent' = <<>>
               /\ UNCHANGED <<project_user, allocation_user>>
            \/ \E selected \in SUBSET get_users_to_remove(u, p) :
                 LET r == RemoveSelected(project_user, allocation, allocation_user, p,
                                         selected, Len(UserOrder)) IN
                 /\ project_user' = r.project_user
                 /\ allocation_user' = r.allocation_user
                 /\ sent' = r.sent
                 /\ response' = Resp("redirect", "Removed users from project.")

\* ------------------------------------------------------ ProjectAddUsersView
\* get_project_user_search_results: matches exclude the Active project users
SearchCandidates(p) == {x \in Users : project_user[p][x].status # "Active"}

\* get_project_allocations_data: the allocations offered by the allocation formset
get_project_allocations_data(p) ==
    {a \in allocation_set(allocation, p) :
        /\ ~allocation[a].is_locked
        /\ allocation[a].status \in {"Active", "New", "Renewal Requested", "Payment Pending",
                                     "Payment Requested", "Paid"}}

\* the inner loop of post over the selected allocations 1..n, for one user
RECURSIVE AddToAllocations(_, _, _, _, _)
AddToAllocations(alloc, au, x, allocations_selected, n) ==
    IF n = 0 THEN [allocation_user |-> au, sent |-> <<>>]
    ELSE LET before == AddToAllocations(alloc, au, x, allocations_selected, n - 1) IN
         IF n \in allocations_selected
         THEN LET user_status_choice ==
                      determine_eula_status_for_allocation_user(alloc, before.allocation_user, n, x)
                  r == add_user_to_allocation(before.allocation_user, n, x, user_status_choice, TRUE)
              IN [allocation_user |-> r.allocation_user, sent |-> before.sent \o r.sent]
         ELSE before

\* the outer loop of post over the selected user forms, in form order
RECURSIVE AddSelected(_, _, _, _, _, _, _, _)
AddSelected(pu, alloc, au, p, selected, role_choice, allocations_selected, n) ==
    IF n = 0 THEN [project_user |-> pu, allocation_user |-> au, sent |-> <<>>]
    ELSE LET before == AddSelected(pu, alloc, au, p, selected, role_choice,
                                   allocations_selected, n - 1) IN
         IF UserOrder[n] \in selected
         THEN LET r1 == add_user_to_project(before.project_user, p, UserOrder[n], role_choice, TRUE)
                  r2 == AddToAllocations(alloc, before.allocation_user, UserOrder[n],
                                         allocations_selected, MaxAllocations)
              IN [project_user |-> r1.project_user, allocation_user |-> r2.allocation_user,
                  sent |-> before.sent \o r1.sent \o r2.sent]
         ELSE before

ProjectAddUsersView(u, p, method) ==
    /\ Clock /\ UNCHANGED <<settings, allocation_limit, in_flight, change_tables, project, allocation>>
    /\ IF project_is_archived(project[p])
       THEN /\ request' = Req("ProjectAddUsersView", method, u, p)
            /\ response' = Resp("redirect", "You cannot add users to an archived project.")
            /\ sent' = <<>>
            /\ UNCHANGED <<project_user, allocation_user>>
       ELSE IF ~user_is_pi_or_manager(u, p)
       THEN /\ request' = Req("ProjectAddUsersView", method, u, p)
            /\ response' = Resp("forbidden", "")
            /\ sent' = <<>>
            /\ UNCHANGED <<project_user, allocation_user>>
       ELSE IF method = "GET"
       THEN /\ request' = Req("ProjectAddUsersView", method, u, p)
            /\ response' = Resp("method not allowed", "")
            /\ sent' = <<>>
            /\ UNCHANGED <<project_user, allocation_user>>
       ELSE \/ /\ request' = Req("ProjectAddUsersView", method, u, p)
               /\ response' = Resp("redirect", "formset errors")
               /\ sent' = <<>>
               /\ UNCHANGED <<project_user, allocation_user>>
            \/ \E selected \in SUBSET SearchCandidates(p), role_choice \in ProjectUserRoleChoices,
                  allocations_selected \in SUBSET get_project_allocations_data(p) :
                 LET r == AddSelected(project_user, allocation, allocation_user, p, selected,
                                      role_choice, allocations_selected, Len(UserOrder)) IN
                 /\ request' = ReqForm("ProjectAddUsersView", method, u, p,
                                       [users |-> selected, allocations |-> allocations_selected])
                 /\ project_user' = r.project_user
                 /\ allocation_user' = r.allocation_user
                 /\ sent' = r.sent
                 /\ response' = Resp("redirect", "Added users to project.")

\* -------------------------------------------------------- ProjectUserDetail
\* ProjectUserUpdateForm cleaned data
RoleForms == {[role |-> "Manager", enable_notifications |-> FALSE],
              [role |-> "User", enable_notifications |-> FALSE],
              [role |-> "User", enable_notifications |-> TRUE]}

\* post; project_user_pk names the ProjectUser row <<p2, x>>
ProjectUserDetail(u, p, p2, x, method) ==
    /\ request' = Req("ProjectUserDetail", method, u, p)
    /\ Clock /\ UNCHANGED <<settings, allocation_limit, in_flight, change_tables, project, allocation, allocation_user>>
    /\ sent' = <<>>
    /\ IF ~user_is_pi_or_manager(u, p)
       THEN /\ response' = Resp("forbidden", "")
            /\ UNCHANGED project_user
       ELSE IF method = "GET"
       THEN /\ response' = IF project_user[p2][x].status = "None"
                            THEN Resp("not found", "") ELSE Resp("render", "")
            /\ UNCHANGED project_user
       ELSE IF project_is_archived(project[p])
       THEN /\ response' = Resp("redirect", "You cannot update a user in an archived project.")
            /\ UNCHANGED project_user
       ELSE IF ~(p2 = p /\ project_user[p][x].status # "None")
       THEN /\ response' = Resp("none", "")
            /\ UNCHANGED project_user
       ELSE IF x = pi[p]
       THEN /\ response' = Resp("redirect", "PI role and email notification option cannot be changed.")
            /\ UNCHANGED project_user
       ELSE \/ /\ response' = Resp("none", "form invalid")
               /\ UNCHANGED project_user
            \/ \E form_data \in RoleForms :
                 /\ project_user' = [project_user EXCEPT
                        ![p][x].role = form_data.role,
                        ![p][x].enable_notifications =
                            IF form_data.role = "Manager" THEN TRUE
                            ELSE form_data.enable_notifications]
                 /\ response' = Resp("redirect", "User details updated.")

\* ------------------------------------------------- calls of the utilities
\* remove_user_from_project called directly (management commands, plugins)
CallRemoveUserFromProject(p, x, send_signals) ==
    LET r == remove_user_from_project(project_user, allocation, allocation_user, p, x, send_signals) IN
    /\ request' = [Req("remove_user_from_project", "CALL", x, p) EXCEPT !.method =
                       IF send_signals THEN "CALL send_signals" ELSE "CALL"]
    /\ response' = Resp(IF r.result THEN "True" ELSE "False", "")
    /\ project_user' = r.project_user
    /\ allocation_user' = r.allocation_user
    /\ sent' = r.sent
    /\ Clock /\ UNCHANGED <<settings, allocation_limit, in_flight, change_tables, project, allocation>>

\* --------------------------------------------------------- allocation views
\* Allocation.has_perm, Project.has_perm and get_user_resources are model methods the views
\* call: a test_func that relies on one of them may give either outcome
has_perm_outcomes == BOOLEAN

\* AllocationUpdateForm as posted: the fields a superuser may edit
AllocationUpdateForms ==
    {[status |-> s, start_date |-> d[1], end_date |-> d[2], is_locked |-> l] :
        s \in {"Active", "New", "Denied", "Revoked", "Expired"},
        d \in {<<NoDate, NoDate>>, <<0, 5>>, <<5, 0>>},
        l \in BOOLEAN}

\* AllocationUpdateForm.clean
AllocationUpdateFormIsValid(form) ==
    ~(form.start_date # NoDate /\ form.end_date # NoDate /\ form.end_date < form.start_date)

\* UpdateView.form_valid: form.save() writes the form's fields to the row
SaveAllocationUpdateForm(obj, form) ==
    [obj EXCEPT !.status = form.status, !.start_date = form.start_date,
                !.end_date = form.end_date, !.is_locked = form.is_locked]

\* the users of allocation a whose status is not in excluded, ordered, as signals
RECURSIVE AllocationUserSignals(_, _, _, _, _)
AllocationUserSignals(au, a, name, excluded, n) ==
    IF n = 0 THEN <<>>
    ELSE AllocationUserSignals(au, a, name, excluded, n - 1)
         \o (IF au[a][UserOrder[n]] \notin excluded \cup {"None"}
             THEN <<Signal(name, <<a, UserOrder[n]>>)>> ELSE <<>>)

\* AllocationDetailView.post without its test on request.user.is_superuser
AllocationDetailPost_any(u, obj, au, a, action, form, today) ==
    LET dirty_status == IF action \in {"approve", "auto-approve"} THEN "Active"
                        ELSE IF action = "deny" THEN "Denied" ELSE form.status
        status_changed == obj.status # dirty_status
        dirty_form_data ==
            IF dirty_status = "Active"
            THEN [form EXCEPT
                    !.status = dirty_status,
                    !.start_date = IF obj.start_date = NoDate THEN today ELSE @,
                    !.end_date = IF action \in {"approve", "auto-approve"} \/ @ = NoDate
                                 THEN today + ALLOCATION_DEFAULT_ALLOCATION_LENGTH ELSE @]
            ELSE IF dirty_status \in {"Denied", "New", "Revoked"}
            THEN [form EXCEPT !.status = dirty_status, !.start_date = NoDate, !.end_date = NoDate]
            ELSE [form EXCEPT !.status = dirty_status]
        allocation_signal ==
            IF dirty_status = "Active" THEN <<Signal("allocation_activate", a)>>
            ELSE IF dirty_status \in {"Denied", "Revoked"} THEN <<Signal("allocation_disable", a)>>
            ELSE <<>>
        allocation_user_signals ==
            IF dirty_status = "Active"
            THEN AllocationUserSignals(au, a, "allocation_activate_user",
                                       {"Removed", "Error", "DeclinedEULA", "PendingEULA"}, Len(UserOrder))
            ELSE IF dirty_status \in {"Denied", "Revoked"}
            THEN AllocationUserSignals(au, a, "allocation_remove_user", {"Removed", "Error"},
                                       Len(UserOrder))
            ELSE <<>>
        email == IF dirty_status \in {"Active", "Denied", "Revoked"}
                 THEN <<Signal("send_allocation_customer_email", a)>> ELSE <<>>
    IN
    IF action \notin {"update", "approve", "auto-approve", "deny"}
    THEN [allocation |-> obj, sent |-> <<>>, response |-> Resp("bad request", "Invalid request")]
    ELSE IF ~status_changed
    THEN \* super().post(): the form as posted, saved without any signal
         IF AllocationUpdateFormIsValid(form)
         THEN [allocation |-> SaveAllocationUpdateForm(obj, form), sent |-> <<>>,
               response |-> Resp("redirect", "")]
         ELSE [allocation |-> obj, sent |-> <<>>, response |-> Resp("form invalid", "")]
    ELSE IF AllocationUpdateFormIsValid(dirty_form_data)
    THEN [allocation |-> SaveAllocationUpdateForm(obj, dirty_form_data),
          sent |-> allocation_signal \o allocation_user_signals \o email,
          response |-> Resp("redirect", "")]
    ELSE [allocation |-> obj, sent |-> <<>>, response |-> Resp("form invalid", "")]

AllocationDetailPost(u, obj, au, a, action, form, today) ==
    IF ~is_superuser(u)
    THEN [allocation |-> obj, sent |-> <<>>,
          response |-> Resp("redirect", "You do not have permission to update the allocation")]
    ELSE AllocationDetailPost_any(u, obj, au, a, action, form, today)

DetailActions == {"update", "approve", "auto-approve", "deny", "delete"}

AllocationDetailView(u, a, method) ==
    /\ allocation[a].status # "None"
    /\ Clock /\ UNCHANGED <<settings, allocation_limit, in_flight, change_tables, project, project_user,
                            allocation_user>>
    /\ \E permitted \in IF is_superuser(u) THEN {TRUE} ELSE has_perm_outcomes :
          IF ~permitted
          THEN /\ request' = Req("AllocationDetailView", method, u, a)
               /\ response' = Resp("forbidden", "")
               /\ sent' = <<>>
               /\ UNCHANGED allocation
          ELSE IF method = "GET"
          THEN /\ request' = Req("AllocationDetailView", method, u, a)
               /\ response' = Resp("render", "")
               /\ sent' = <<>>
               /\ UNCHANGED allocation
          ELSE \E action \in DetailActions, form \in AllocationUpdateForms :
                  LET r == AllocationDetailPost(u, allocation[a], allocation_user, a, action,
                                                form, now) IN
                  /\ request' = ReqForm("AllocationDetailView", method, u, a, [action |-> action])
                  /\ allocation' = [allocation EXCEPT ![a] = r.allocation]
                  /\ sent' = r.sent
                  /\ response' = r.response

\* AllocationChangeRequestForm and the one AllocationAttributeChangeRequestForm as posted
ChangeRequestForms ==
    {[end_date_extension |-> e, notes |-> n, new_value |-> v] :
        e \in {0, 7, 30}, n \in {"", "n1"}, v \in {"v1", "v2"}}

\* AllocationChangeDetailView.post for a superuser; cr is the change request, ac its
\* attribute change, attr the allocation attribute, obj the allocation of the request
AllocationChangeDetailPost(cr, ac, attr, obj, action, form) ==
    LET unchanged == [change_request |-> cr, attribute_change |-> ac,
                      allocation_attribute |-> attr, allocation |-> obj, sent |-> <<>>]
        redirect == Resp("redirect", "")
        \* get_form_kwargs: end_date_extension is disabled unless the request is Pending
        extension == IF cr.status # "Pending" THEN cr.end_date_extension
                     ELSE form.end_date_extension
        form_is_valid == extension \in {0} \cup ALLOCATION_CHANGE_REQUEST_EXTENSION_DAYS
        saved == [cr EXCEPT !.end_date_extension = extension, !.notes = form.notes]
        \* AllocationAttributeChangeRequestForm.clean
        formset_is_valid == attr.value # form.new_value
    IN
    IF action \notin {"update", "approve", "deny"}
    THEN unchanged @@ [response |-> Resp("bad request", "Invalid request")]
    ELSE IF ~form_is_valid
    THEN unchanged @@ [response |-> Resp("form invalid", "")]
    ELSE IF action = "deny"
    THEN [unchanged EXCEPT !.change_request = [saved EXCEPT !.status = "Denied"],
                           !.sent = <<Signal("send_allocation_customer_email", cr.allocation)>>]
         @@ [response |-> redirect]
    ELSE IF ~formset_is_valid
    THEN unchanged @@ [response |-> Resp("formset invalid", "")]
    ELSE IF action = "update" /\ cr.status # "Pending"
    THEN [unchanged EXCEPT !.change_request = [cr EXCEPT !.notes = form.notes]]
         @@ [response |-> redirect]
    ELSE IF action = "update"
    THEN [unchanged EXCEPT !.change_request = saved,
                           !.attribute_change = [new_value |-> form.new_value]]
         @@ [response |-> redirect]
    ELSE IF extension > 0 /\ obj.end_date = NoDate
    THEN \* approve: None + relativedelta raises after the two forms are saved
         [unchanged EXCEPT !.change_request = saved,
                           !.attribute_change = [new_value |-> form.new_value]]
         @@ [response |-> Resp("error", "TypeError")]
    ELSE \* approve: the loop over the formset reads form_data.get("allocation"), a field
         \* the form does not have, and raises on allocation.pk after saving the attribute
         [change_request |-> [saved EXCEPT !.status = "Approved"],
          attribute_change |-> [new_value |-> form.new_value],
          allocation_attribute |-> [value |-> form.new_value],
          allocation |-> IF extension > 0 THEN [obj EXCEPT !.end_date = @ + extension] ELSE obj,
          sent |-> <<>>,
          response |-> Resp("error", "AttributeError")]

ChangeActions == {"update", "approve", "deny", "delete"}

AllocationChangeDetailView(u, method) ==
    /\ Clock /\ UNCHANGED <<settings, allocation_limit, in_flight, project, project_user, allocation_user>>
    /\ \E permitted \in IF is_superuser(u) THEN {TRUE} ELSE has_perm_outcomes :
          IF ~permitted
          THEN /\ request' = Req("AllocationChangeDetailView", method, u, 1)
               /\ response' = Resp("forbidden", "")
               /\ sent' = <<>>
               /\ UNCHANGED <<change_tables, allocation>>
          ELSE IF method = "GET"
          THEN /\ request' = Req("AllocationChangeDetailView", method, u, 1)
               /\ response' = Resp("render", "")
               /\ sent' = <<>>
               /\ UNCHANGED <<change_tables, allocation>>
          ELSE IF ~is_superuser(u)
          THEN /\ request' = Req("AllocationChangeDetailView", method, u, 1)
               /\ response' = Resp("redirect", "You do not have permission to update an allocation change request")
               /\ sent' = <<>>
               /\ UNCHANGED <<change_tables, allocation>>
          ELSE \E action \in ChangeActions, form \in ChangeRequestForms :
                  LET a == change_request.allocation
                      r == AllocationChangeDetailPost(change_request, attribute_change,
                                                      allocation_attribute, allocation[a],
                                                      action, form) IN
                  /\ request' = ReqForm("AllocationChangeDetailView", method, u, 1,
                                        [action |-> action])
                  /\ change_request' = r.change_request
                  /\ attribute_change' = r.attribute_change
                  /\ allocation_attribute' = r.allocation_attribute
                  /\ allocation' = [allocation EXCEPT ![a] = r.allocation]
                  /\ sent' = r.sent
                  /\ response' = r.response

\* ------------------------------------------------------ AllocationCreateView
\* the statuses AllocationForm.clean counts against the limit
LimitedStatuses == {"Active", "New", "Renewal Requested", "Paid", "Payment Pending",
                    "Payment Requested"}

\* project_obj.allocation_set.filter(resources=resource_obj, status__name__in=[...]).count()
allocation_count(alloc, p, r) ==
    Cardinality({a \in allocation_set(alloc, p) :
                    alloc[a].resource = r /\ alloc[a].status \in LimitedStatuses})

\* AllocationForm.clean: the error code it raises, or "valid"; a resource without the
\* attribute has limit None, and `if allocation_limit:` is false for None and for 0
AllocationFormClean(alloc, limits, form) ==
    IF limits[form.resource] # NoLimit /\ limits[form.resource] # 0
       /\ allocation_count(alloc, form.project, form.resource) >= limits[form.resource]
    THEN "reached_allocation_limit"
    ELSE "valid"

\* the pk the database gives the next Allocation row
NextAllocationPk(alloc) ==
    IF \A a \in Allocations : alloc[a].status # "None" THEN 0
    ELSE CHOOSE a \in Allocations :
            alloc[a].status = "None" /\ \A b \in Allocations : b > a => alloc[b].status = "None"

\* the user choices of AllocationForm: Active project users other than the PI
AllocationFormUsers(p) == {x \in Users : project_user[p][x].status = "Active" /\ x # pi[p]}

\* the posted AllocationForm: the hidden project field is posted data like any other
AllocationForms(p) ==
    {[project |-> p2, resource |-> r, users |-> us] :
        p2 \in Projects, r \in Resources, us \in SUBSET AllocationFormUsers(p)}

\* form_valid: the AllocationUser rows of the new allocation
NewAllocationUsers(u, p, form) ==
    [x \in Users |->
        IF x \in form.users \cup {pi[p]}
        THEN IF settings.ALLOCATION_EULA_ENABLE /\ x # u THEN "PendingEULA" ELSE "Active"
        ELSE "None"]

\* AllocationCreateView.dispatch: the message it redirects with, "" when it goes on
AllocationCreateDispatch(proj) ==
    IF proj.needs_review
    THEN "You cannot request a new allocation because you have to review your project first."
    ELSE IF proj.status \notin {"Active", "New"}
    THEN "You cannot request a new allocation to an archived project."
    ELSE ""

AllocationCreateView(u, p, method) ==
    /\ Clock /\ UNCHANGED <<settings, allocation_limit, in_flight, change_tables, project, project_user>>
    /\ IF AllocationCreateDispatch(project[p]) # ""
       THEN /\ request' = Req("AllocationCreateView", method, u, p)
            /\ response' = Resp("redirect", AllocationCreateDispatch(project[p]))
            /\ sent' = <<>>
            /\ UNCHANGED <<allocation, allocation_user>>
       ELSE \E permitted \in has_perm_outcomes :
          IF ~permitted
          THEN /\ request' = Req("AllocationCreateView", method, u, p)
               /\ response' = Resp("forbidden", "You do not have permission to create a new allocation.")
               /\ sent' = <<>>
               /\ UNCHANGED <<allocation, allocation_user>>
          ELSE IF method = "GET"
          THEN /\ request' = Req("AllocationCreateView", method, u, p)
               /\ response' = Resp("render", "")
               /\ sent' = <<>>
               /\ UNCHANGED <<allocation, allocation_user>>
          ELSE \E form \in AllocationForms(p) :
                  LET code == AllocationFormClean(allocation, allocation_limit, form)
                      pk == NextAllocationPk(allocation) IN
                  /\ request' = ReqForm("AllocationCreateView", method, u, p,
                                        [project |-> form.project, resource |-> form.resource])
                  /\ IF code # "valid"
                     THEN /\ response' = Resp("form invalid", code)
                          /\ sent' = <<>>
                          /\ UNCHANGED <<allocation, allocation_user>>
                     ELSE /\ pk # 0
                          /\ allocation' = [allocation EXCEPT ![pk] =
                                [project |-> form.project, status |-> "New",
                                 resource |-> form.resource, start_date |-> NoDate,
                                 end_date |-> NoDate, is_locked |-> FALSE,
                                 is_changeable |-> TRUE]]
                          /\ allocation_user' = [allocation_user EXCEPT ![pk] =
                                NewAllocationUsers(u, p, form)]
                          /\ sent' = <<Signal("send_allocation_admin_email", pk),
                                       Signal("allocation_new", pk)>>
                          /\ response' = Resp("redirect", "Allocation requested. It will be available once it is approved.")

\* AllocationCreateView.post of worker i up to form.is_valid(): dispatch, test_func and
\* AllocationForm.clean read the database; a valid form is kept for form_valid
AllocationCreateIsValid(i, u, p) ==
    /\ in_flight[i].pc = "none"
    /\ UNCHANGED <<settings, now, allocation_limit, change_tables, project, project_user,
                   allocation, allocation_user>>
    /\ sent' = <<>>
    /\ IF AllocationCreateDispatch(project[p]) # ""
       THEN /\ request' = Req("AllocationCreateView", "POST", u, p)
            /\ response' = Resp("redirect", AllocationCreateDispatch(project[p]))
            /\ in_flight' = [in_flight EXCEPT ![i].pc = "done"]
       ELSE \E permitted \in has_perm_outcomes :
          IF ~permitted
          THEN /\ request' = Req("AllocationCreateView", "POST", u, p)
               /\ response' = Resp("forbidden", "You do not have permission to create a new allocation.")
               /\ in_flight' = [in_flight EXCEPT ![i].pc = "done"]
          ELSE \E form \in AllocationForms(p) :
                  LET code == AllocationFormClean(allocation, allocation_limit, form) IN
                  /\ request' = ReqForm("AllocationCreateView", "POST", u, p,
                                        [project |-> form.project, resource |-> form.resource])
                  /\ IF code # "valid"
                     THEN /\ response' = Resp("form invalid", code)
                          /\ in_flight' = [in_flight EXCEPT ![i].pc = "done"]
                     ELSE /\ response' = Resp("none", "")
                          /\ in_flight' = [in_flight EXCEPT ![i] =
                                [pc |-> "validated", user |-> u, pk |-> p, form |-> form]]

\* AllocationCreateView.form_valid of worker i, on the database as it is by then
AllocationCreateFormValid(i) ==
    LET u == in_flight[i].user
        p == in_flight[i].pk
        form == in_flight[i].form
        pk == NextAllocationPk(allocation) IN
    /\ in_flight[i].pc = "validated"
    /\ pk # 0
    /\ UNCHANGED <<settings, now, allocation_limit, change_tables, project, project_user>>
    /\ request' = ReqForm("AllocationCreateView", "POST", u, p,
                          [project |-> form.project, resource |-> form.resource])
    /\ allocation' = [allocation EXCEPT ![pk] =
          [project |-> form.project, status |-> "New", resource |-> form.resource,
           start_date |-> NoDate, end_date |-> NoDate, is_locked |-> FALSE,
           is_changeable |-> TRUE]]
    /\ allocation_user' = [allocation_user EXCEPT ![pk] = NewAllocationUsers(u, p, form)]
    /\ sent' = <<Signal("send_allocation_admin_email", pk), Signal("allocation_new", pk)>>
    /\ response' = Resp("redirect", "Allocation requested. It will be available once it is approved.")
    /\ in_flight' = [in_flight EXCEPT ![i] = [NoRequest EXCEPT !.pc = "done"]]

\* -------------------------------------------------------- AllocationEULAView
EulaActions == {"accepted_eula", "declined_eula", "delete"}

\* user_in_allocation of post, excluding only the Removed rows as get_context_data does
user_in_allocation_removed(au, a, u) == au[a][u] \notin {"None", "Removed"}

\* user_in_allocation of AllocationEULAView.post
user_in_allocation(au, a, u) == au[a][u] \notin {"None", "Removed", "DeclinedEULA"}

AllocationEULAView(u, a, method) ==
    /\ allocation[a].status # "None"
    /\ Clock /\ UNCHANGED <<settings, allocation_limit, in_flight, change_tables, project, project_user,
                            allocation>>
    /\ \E permitted \in IF is_superuser(u) THEN {TRUE} ELSE has_perm_outcomes :
          IF ~permitted
          THEN /\ request' = Req("AllocationEULAView", method, u, a)
               /\ response' = Resp("forbidden", "")
               /\ sent' = <<>>
               /\ UNCHANGED allocation_user
          ELSE IF method = "GET"
          THEN /\ request' = Req("AllocationEULAView", method, u, a)
               /\ response' = Resp("render", "")
               /\ sent' = <<>>
               /\ UNCHANGED allocation_user
          ELSE \E action \in EulaActions :
                  /\ request' = ReqForm("AllocationEULAView", method, u, a, [action |-> action])
                  /\ IF ~user_in_allocation(allocation_user, a, u)
                     THEN /\ response' = Resp("redirect", "")
                          /\ sent' = <<>>
                          /\ UNCHANGED allocation_user
                     ELSE IF action \notin {"accepted_eula", "declined_eula"}
                     THEN /\ response' = Resp("bad request", "Invalid request")
                          /\ sent' = <<>>
                          /\ UNCHANGED allocation_user
                     ELSE IF action = "accepted_eula"
                     THEN /\ allocation_user' = [allocation_user EXCEPT ![a][u] = "Active"]
                          /\ sent' = <<Signal("activate_user", <<a, u>>)>>
                          /\ response' = Resp("redirect", "EULA Accepted!")
                     ELSE /\ allocation_user' = [allocation_user EXCEPT ![a][u] = "DeclinedEULA"]
                          /\ sent' = <<>>
                          /\ response' = Resp("redirect", "You did not agree to the EULA and were removed from the allocation. To access this allocation, your PI will have to re-add you.")

\* ------------------------------------------------- AllocationUsersRemoveView
\* get_formset_queryset: the rows the formset offers, by their user
RemoveQueryset(u, a) ==
    {x \in Users : allocation_user[a][x] \notin {"None", "Removed", "Error"}
                   /\ x # pi[allocation[a].project] /\ x # u}

\* a posted AllocationUserForm: id is the user of the row it edits, or "new" for an extra
\* form; allocation and user are hidden inputs, status is disabled
AllocationUserFormData(id, a, x, selected) ==
    [id |-> id, allocation |-> a, user |-> x, selected |-> selected]

\* the formsets posted: the forms as rendered with some of them selected, or the forms as
\* rendered with none selected and one form whose hidden inputs were rewritten
RemoveFormsets(u, a) ==
    LET q == RemoveQueryset(u, a) IN
    {{AllocationUserFormData(x, a, x, x \in s) : x \in q} : s \in SUBSET q}
    \cup {{AllocationUserFormData(x, a, x, FALSE) : x \in q \ {id}}
          \cup {AllocationUserFormData(id, a2, y, selected)} :
            id \in q \cup {"new"}, a2 \in {b \in Allocations : allocation[b].status # "None"},
            y \in Users, selected \in BOOLEAN}

\* the row a form was built from keeps its place
FormIsUnmoved(a, form) == form.id # "new" /\ form.allocation = a /\ form.user = form.id

\* form.has_changed(): the disabled status never counts
FormHasChanged(a, form) == form.selected \/ ~FormIsUnmoved(a, form)

\* form validation: there is one AllocationUser row for a user and an allocation (the
\* views and utilities get() it by that pair), so a form may not name a pair that has one
FormIsValid(au, a, form) ==
    FormIsUnmoved(a, form) \/ au[form.allocation][form.user] = "None"

\* BaseAllocationUserFormSet.clean for Action.REMOVE: TRUE when no error is raised
FormSetClean(alloc, formset) ==
    \A form \in formset :
        form.selected => pi[alloc[form.allocation].project] # form.user

\* formset.is_valid()
FormSetIsValid(alloc, au, a, formset) ==
    /\ \A form \in formset : FormHasChanged(a, form) => FormIsValid(au, a, form)
    /\ FormSetClean(alloc, formset)

\* formset.save(): every changed form is saved with the initial status, Removed
FormSetSave(au, a, formset) ==
    [b \in Allocations |-> [x \in Users |->
        IF \E form \in formset :
              FormHasChanged(a, form) /\ form.allocation = b /\ form.user = x
        THEN "Removed"
        ELSE IF b = a /\ \E form \in formset :
                            form.id = x /\ FormHasChanged(a, form) /\ ~FormIsUnmoved(a, form)
        THEN "None"
        ELSE au[b][x]]]

\* the signals of formset_valid, one for each saved object
RECURSIVE RemoveSignals(_, _, _)
RemoveSignals(a, formset, n) ==
    IF n = 0 THEN <<>>
    ELSE LET x == UserOrder[((n - 1) % Len(UserOrder)) + 1]
             b == ((n - 1) \div Len(UserOrder)) + 1 IN
         RemoveSignals(a, formset, n - 1)
         \o (IF \E form \in formset :
                   FormHasChanged(a, form) /\ form.allocation = b /\ form.user = x
             THEN <<Signal("allocation_remove_user", <<b, x>>)>> ELSE <<>>)

AllocationUsersRemoveView(u, a, method) ==
    /\ allocation[a].status # "None"
    /\ Clock /\ UNCHANGED <<settings, allocation_limit, in_flight, change_tables, project, project_user,
                            allocation>>
    /\ IF allocation[a].is_locked /\ ~is_superuser(u)
       THEN /\ request' = Req("AllocationUsersRemoveView", method, u, a)
            /\ response' = Resp("redirect", "You cannot modify this allocation because it is locked! Contact support for details.")
            /\ sent' = <<>>
            /\ UNCHANGED allocation_user
       ELSE IF allocation[a].status \notin {"Active", "New", "Renewal Requested"}
       THEN /\ request' = Req("AllocationUsersRemoveView", method, u, a)
            /\ response' = Resp("redirect", "You cannot remove users from a allocation with this status.")
            /\ sent' = <<>>
            /\ UNCHANGED allocation_user
       ELSE \E permitted \in has_perm_outcomes :
          IF ~permitted
          THEN /\ request' = Req("AllocationUsersRemoveView", method, u, a)
               /\ response' = Resp("forbidden", "You do not have permission to remove users from allocation.")
               /\ sent' = <<>>
               /\ UNCHANGED allocation_user
          ELSE IF method = "GET"
          THEN /\ request' = Req("AllocationUsersRemoveView", method, u, a)
               /\ response' = Resp("render", "")
               /\ sent' = <<>>
               /\ UNCHANGED allocation_user
          ELSE \E formset \in RemoveFormsets(u, a) :
                  /\ request' = ReqForm("AllocationUsersRemoveView", method, u, a,
                        [pi_selected |-> \E form \in formset :
                            form.selected /\ pi[allocation[form.allocation].project] = form.user])
                  /\ IF FormSetIsValid(allocation, allocation_user, a, formset)
                     THEN /\ allocation_user' = FormSetSave(allocation_user, a, formset)
                          /\ sent' = RemoveSignals(a, formset, MaxAllocations * Len(UserOrder))
                          /\ response' = Resp("redirect", "Removed users from allocation.")
                     ELSE /\ response' = Resp("formset invalid", "")
                          /\ sent' = <<>>
                          /\ UNCHANGED allocation_user

\* ------------------------------------------------------------ database states
SettingsChoices ==
    {[PROJECT_CODE |-> code, PROJECT_CODE_PADDING |-> IF code = <<>> THEN 0 ELSE 3,
      ALLOCATION_EULA_ENABLE |-> eula] :
        code \in {<<>>, <<"b", "f", "o">>}, eula \in BOOLEAN}

\* a project as ProjectCreateView.form_valid leaves it: the creating PI is its Manager
NewProject(status) ==
    [status |-> status, title |-> "t1", description |-> "d1", field_of_science |-> "f1",
     project_code |-> <<>>, needs_review |-> FALSE]

PiProjectUser == [status |-> "Active", role |-> "Manager", enable_notifications |-> TRUE]

\* an allocation as AllocationCreateView.form_valid and an approval leave it
AnAllocation(p, status, r) ==
    [project |-> p, status |-> status, resource |-> r,
     start_date |-> IF status \in {"Active", "Expired"} THEN 0 ELSE NoDate,
     end_date |-> IF status \in {"Active", "Expired"} THEN MaxTime + 1 ELSE NoDate,
     is_locked |-> FALSE, is_changeable |-> TRUE]

\* a change request as AllocationChangeView.post leaves it
PendingChangeRequest == [allocation |-> 1, status |-> "Pending", end_date_extension |-> 0,
                         notes |-> ""]

\* database states the project views start from: the status of project 1, of its second
\* allocation, and of the ProjectUser row of the PI of project 2
Scenarios ==
    {[s1 |-> "New", s2 |-> "New", pi2 |-> "Active"],
     [s1 |-> "Active", s2 |-> "Denied", pi2 |-> "Active"],
     [s1 |-> "Active", s2 |-> "Active", pi2 |-> "Removed"],
     [s1 |-> "Archived", s2 |-> "New", pi2 |-> "Active"],
     [s1 |-> "Archived", s2 |-> "Expired", pi2 |-> "Removed"]}

Init ==
    /\ settings \in SettingsChoices
    /\ now = 0
    /\ \E sc \in Scenarios :
          /\ project = (1 :> NewProject(sc.s1)) @@ (2 :> NewProject("Active"))
          /\ project_user = [p \in Projects |-> [x \in Users |->
                 IF x = pi[p] THEN [PiProjectUser EXCEPT !.status = IF p = 2 THEN sc.pi2 ELSE @]
                 ELSE IF p = 1 /\ x = "bob"
                      THEN [status |-> "Active", role |-> "User", enable_notifications |-> TRUE]
                 ELSE NoProjectUser]]
          /\ allocation = [a \in Allocations |->
                 IF a = 1 THEN AnAllocation(1, IF sc.s1 = "Archived" THEN "Expired" ELSE "Active", "r1")
                 ELSE IF a = 2 THEN AnAllocation(1, sc.s2, "r2")
                 ELSE IF a = 3 THEN AnAllocation(2, "Active", "r1")
                 ELSE NoAllocation]
    /\ allocation_user = [a \in Allocations |-> [x \in Users |->
              IF allocation[a].status = "None" THEN "None"
              ELSE IF x = pi[allocation[a].project] THEN "Active"
              ELSE IF x = "bob" /\ a = 1 THEN "Active"
              ELSE "None"]]
    /\ allocation_limit = [r \in Resources |-> NoLimit]
    /\ change_request = PendingChangeRequest
    /\ attribute_change = [new_value |-> "v2"]
    /\ allocation_attribute = [value |-> "v1"]
    /\ request = Req("none", "none", "none", 0)
    /\ in_flight = NoRequests
    /\ response = Resp("none", "")
    /\ sent = <<>>

Next ==
    \/ \E u \in Users, p \in Projects, method \in Methods :
          now < MaxTime /\ ProjectUpdateView(u, p, method)
    \/ \E u \in Users, p \in Projects, method \in Methods :
          now < MaxTime /\ ProjectArchiveProjectView(u, p, method)
    \/ \E u \in Users, p \in Projects, method \in Methods :
          now < MaxTime /\ ProjectRemoveUsersView(u, p, method)
    \/ \E u \in Users, p \in Projects, method \in Methods :
          now < MaxTime /\ ProjectAddUsersView(u, p, method)
    \/ \E u \in Users, p \in Projects, p2 \in Projects, x \in Users, method \in Methods :
          now < MaxTime /\ ProjectUserDetail(u, p, p2, x, method)
    \/ \E p \in Projects, x \in Users, send_signals \in BOOLEAN :
          now < MaxTime /\ CallRemoveUserFromProject(p, x, send_signals)

Spec == Init /\ [][Next]_vars

\* ------------------------------------------------------- allocation requests
\* database states AllocationDetailView and AllocationChangeDetailView start from: the
\* status of allocation 1, the status of its change request, and bob's row on it
AllocationScenarios ==
    {[s1 |-> s, cr |-> c, bob |-> b] :
        s \in {"New", "Active", "Renewal Requested", "Denied"},
        c \in {"Pending", "Approved"},
        b \in {"Active", "PendingEULA"}}

InitAllocation ==
    /\ settings = [PROJECT_CODE |-> <<>>, PROJECT_CODE_PADDING |-> 0,
                   ALLOCATION_EULA_ENABLE |-> TRUE]
    /\ now = 0
    /\ project = [p \in Projects |-> NewProject("Active")]
    /\ project_user = [p \in Projects |-> [x \in Users |->
           IF x = pi[p] THEN PiProjectUser
           ELSE IF p = 1 /\ x = "bob"
                THEN [status |-> "Active", role |-> "User", enable_notifications |-> TRUE]
           ELSE NoProjectUser]]
    /\ \E sc \in AllocationScenarios :
          /\ allocation = [a \in Allocations |->
                 IF a = 1 THEN AnAllocation(1, sc.s1, "r1")
                 ELSE IF a = 2 THEN AnAllocation(2, "New", "r2")
                 ELSE NoAllocation]
          /\ allocation_user = [a \in Allocations |-> [x \in Users |->
                 IF a = 1 /\ x = "ann" THEN "Active"
                 ELSE IF a = 1 /\ x = "bob" THEN sc.bob
                 ELSE IF a = 2 /\ x = "bob" THEN "Active"
                 ELSE "None"]]
          /\ change_request = [PendingChangeRequest EXCEPT !.status = sc.cr]
    /\ allocation_limit = [r \in Resources |-> NoLimit]
    /\ attribute_change = [new_value |-> "v2"]
    /\ allocation_attribute = [value |-> "v1"]
    /\ request = Req("none", "none", "none", 0)
    /\ in_flight = NoRequests
    /\ response = Resp("none", "")
    /\ sent = <<>>

NextAllocation ==
    \/ \E u \in Users, a \in Allocations, method \in Methods :
          now < MaxTime /\ AllocationDetailView(u, a, method)
    \/ \E u \in Users, method \in Methods :
          now < MaxTime /\ AllocationChangeDetailView(u, method)

SpecAllocation == InitAllocation /\ [][NextAllocation]_vars

\* ------------------------------------------------------- allocation creation
\* database states AllocationCreateView starts from: project 1 and its review flag, the
\* second allocation of project 1 on r1, and the limit of r1
CreateScenarios ==
    {[s1 |-> ps[1], needs_review |-> ps[2], s2 |-> s2, limit |-> l] :
        ps \in {<<"Active", FALSE>>, <<"Archived", FALSE>>, <<"Active", TRUE>>},
        s2 \in {"New", "Expired", "None"},
        l \in {NoLimit} \cup 0..MaxLimit}

InitCreate ==
    /\ \E eula \in BOOLEAN :
          settings = [PROJECT_CODE |-> <<>>, PROJECT_CODE_PADDING |-> 0,
                      ALLOCATION_EULA_ENABLE |-> eula]
    /\ now = 0
    /\ project_user = [p \in Projects |-> [x \in Users |->
           IF x = pi[p] THEN PiProjectUser
           ELSE IF p = 1 /\ x = "bob"
                THEN [status |-> "Active", role |-> "User", enable_notifications |-> TRUE]
           ELSE NoProjectUser]]
    /\ \E sc \in CreateScenarios :
          /\ project = (1 :> [NewProject(sc.s1) EXCEPT !.needs_review = sc.needs_review])
                       @@ (2 :> NewProject("Active"))
          /\ allocation = [a \in Allocations |->
                 IF a = 1 THEN AnAllocation(1, IF sc.s1 = "Archived" THEN "Expired" ELSE "Active", "r1")
                 ELSE IF a = 2 /\ sc.s2 # "None" THEN AnAllocation(1, sc.s2, "r1")
                 ELSE NoAllocation]
          /\ allocation_limit = [r \in Resources |-> IF r = "r1" THEN sc.limit ELSE NoLimit]
    /\ allocation_user = [a \in Allocations |-> [x \in Users |->
           IF allocation[a].status # "None" /\ x = pi[allocation[a].project]
           THEN "Active" ELSE "None"]]
    /\ change_request = PendingChangeRequest
    /\ attribute_change = [new_value |-> "v2"]
    /\ allocation_attribute = [value |-> "v1"]
    /\ request = Req("none", "none", "none", 0)
    /\ in_flight = NoRequests
    /\ response = Resp("none", "")
    /\ sent = <<>>

NextCreate ==
    \E u \in Users, p \in Projects, method \in Methods :
        now < MaxTime /\ AllocationCreateView(u, p, method)

SpecCreate == InitCreate /\ [][NextCreate]_vars

\* database states concurrent allocation requests start from: resource r1 has limit l and
\* project 1 has c <= l allocations on it
InitConcurrent ==
    /\ \E eula \in BOOLEAN :
          settings = [PROJECT_CODE |-> <<>>, PROJECT_CODE_PADDING |-> 0,
                      ALLOCATION_EULA_ENABLE |-> eula]
    /\ now = 0
    /\ project = [p \in Projects |-> NewProject("Active")]
    /\ project_user = [p \in Projects |-> [x \in Users |->
           IF x = pi[p] THEN PiProjectUser ELSE NoProjectUser]]
    /\ \E l \in 1..MaxLimit : \E c \in 0..l :
          /\ allocation_limit = [r \in Resources |-> IF r = "r1" THEN l ELSE NoLimit]
          /\ allocation = [a \in Allocations |->
                 IF a <= c THEN AnAllocation(1, "Active", "r1") ELSE NoAllocation]
    /\ allocation_user = [a \in Allocations |-> [x \in Users |->
           IF allocation[a].status # "None" /\ x = pi[allocation[a].project]
           THEN "Active" ELSE "None"]]
    /\ change_request = PendingChangeRequest
    /\ attribute_change = [new_value |-> "v2"]
    /\ allocation_attribute = [value |-> "v1"]
    /\ request = Req("none", "none", "none", 0)
    /\ in_flight = NoRequests
    /\ response = Resp("none", "")
    /\ sent = <<>>

NextConcurrent ==
    \/ \E i \in Requests, u \in Users, p \in Projects : AllocationCreateIsValid(i, u, p)
    \/ \E i \in Requests : AllocationCreateFormValid(i)

SpecConcurrent == InitConcurrent /\ [][NextConcurrent]_vars

\* ------------------------------------------------------------------ claims
ProjectViews == {"ProjectUpdateView", "ProjectAddUsersView", "ProjectRemoveUsersView",
                 "ProjectArchiveProjectView", "ProjectUserDetail"}

MembershipSignals == {"project_activate_user", "project_remove_user",
                      "allocation_activate_user", "allocation_remove_user"}

SentNames == {sent[i].signal : i \in 1..Len(sent)}

\* C2: a request (GET or POST) to one of the five project views by a user for whom
\* user_is_pi_or_manager is false changes no field of the project, no ProjectUser row and
\* no allocation.
C2_UnpermittedChangesNothing ==
    [][(request'.view \in ProjectViews /\ ~user_is_pi_or_manager(request'.user, request'.pk))
       => (project' = project /\ project_user' = project_user /\ allocation' = allocation)]_vars

\* C3: remove_user_from_project called with the project's PI returns False, changes no
\* ProjectUser and no AllocationUser status and sends no signal, whatever the PI's
\* ProjectUser status and whatever send_signals is.
C3_PiIsNeverRemoved ==
    [][(request'.view = "remove_user_from_project" /\ request'.user = pi[request'.pk])
       => (/\ response'.kind = "False"
           /\ project_user' = project_user
           /\ allocation_user' = allocation_user
           /\ sent' = <<>>)]_vars

\* C3 witness: the utility was called with send_signals for a PI whose ProjectUser row
\* is Active and who is Active on an allocation of the project, and returned False.
C3_Witness ==
    /\ request.view = "remove_user_from_project"
    /\ request.method = "CALL send_signals"
    /\ request.user = pi[request.pk]
    /\ project_user[request.pk][request.user].status = "Active"
    /\ \E a \in allocation_set(allocation, request.pk) :
          allocation[a].status = "Active" /\ allocation_user[a][request.user] = "Active"
    /\ response.kind = "False"

\* C5: ProjectArchiveProjectView.post leaves the project Archived, every allocation of the
\* project that was Active is Expired with end date the time of archiving, the project has
\* no Active allocation, and every other allocation and every AllocationUser row is unchanged.
C5_ArchiveExpiresActiveAllocations ==
    [][(/\ request'.view = "ProjectArchiveProjectView"
        /\ request'.method = "POST"
        /\ user_is_pi_or_manager(request'.user, request'.pk))
       => LET p == request'.pk IN
          /\ project'[p].status = "Archived"
          /\ \A a \in Allocations :
                IF allocation[a].project = p /\ allocation[a].status = "Active"
                THEN allocation'[a] = [allocation[a] EXCEPT !.status = "Expired", !.end_date = now]
                ELSE allocation'[a] = allocation[a]
          /\ \A a \in Allocations : allocation'[a].project = p => allocation'[a].status # "Active"
          /\ allocation_user' = allocation_user]_vars

\* C5 witness: a project with an Active and a New allocation was archived at a time that
\* is not the old end date of the Active one.
C5_Witness ==
    /\ request.view = "ProjectArchiveProjectView"
    /\ request.method = "POST"
    /\ project[request.pk].status = "Archived"
    /\ \E a, b \in allocation_set(allocation, request.pk) :
          /\ allocation[a].status = "Expired" /\ allocation[a].end_date = now - 1
          /\ allocation[b].status = "New"

\* C6: for a project whose status is neither Active nor New, every request to
\* ProjectUpdateView is redirected with 'You cannot update an archived project.' and leaves
\* every field of the project unchanged.
C6_ArchivedProjectIsNotUpdated ==
    [][(request'.view = "ProjectUpdateView"
        /\ project[request'.pk].status \notin {"Active", "New"})
       => (/\ response' = Resp("redirect", "You cannot update an archived project.")
           /\ project' = project)]_vars

\* C7: for a project whose status is neither Active nor New, no request to
\* ProjectAddUsersView, ProjectRemoveUsersView or ProjectUserDetail creates or changes a
\* ProjectUser or AllocationUser row or sends a membership signal.
C7_ArchivedMembershipIsFrozen ==
    [][(request'.view \in {"ProjectAddUsersView", "ProjectRemoveUsersView", "ProjectUserDetail"}
        /\ project[request'.pk].status \notin {"Active", "New"})
       => (/\ project_user' = project_user
           /\ allocation_user' = allocation_user
           /\ \A i \in 1..Len(sent') : sent'[i].signal \notin MembershipSignals)]_vars

\* C7 witness: a PI or manager POSTed to ProjectAddUsersView of an archived project that
\* has a user who could be added, and was turned away.
C7_Witness ==
    /\ request.view = "ProjectAddUsersView"
    /\ request.method = "POST"
    /\ user_is_pi_or_manager(request.user, request.pk)
    /\ project[request.pk].status = "Archived"
    /\ SearchCandidates(request.pk) # {}
    /\ response = Resp("redirect", "You cannot add users to an archived project.")

\* ------------------------------------------------------- allocation membership
\* database states the membership views start from: the rows of bob and of root on
\* allocation 1, root's ProjectUser status in project 1, and whether project 2 has an
\* allocation that was requested through the form of project 1 (AllocationForms: the users
\* of the new allocation are the requester ann and none of project 2)
MembershipScenarios ==
    {[bob |-> "Active", root |-> "PendingEULA", root_pu |-> "Active", stray |-> FALSE],
     [bob |-> "PendingEULA", root |-> "DeclinedEULA", root_pu |-> "Active", stray |-> FALSE],
     [bob |-> "DeclinedEULA", root |-> "PendingEULA", root_pu |-> "Removed", stray |-> FALSE],
     [bob |-> "Active", root |-> "DeclinedEULA", root_pu |-> "Removed", stray |-> TRUE],
     [bob |-> "Removed", root |-> "None", root_pu |-> "None", stray |-> TRUE]}

InitMembership ==
    /\ \E eula \in BOOLEAN :
          settings = [PROJECT_CODE |-> <<>>, PROJECT_CODE_PADDING |-> 0,
                      ALLOCATION_EULA_ENABLE |-> eula]
    /\ now = 0
    /\ project = [p \in Projects |-> NewProject("Active")]
    /\ \E sc \in MembershipScenarios :
          /\ project_user = [p \in Projects |-> [x \in Users |->
                 IF x = pi[p] THEN PiProjectUser
                 ELSE IF p = 1 /\ x = "bob"
                      THEN [status |-> "Active", role |-> "User", enable_notifications |-> TRUE]
                 ELSE IF p = 1 /\ x = "root" /\ sc.root_pu # "None"
                      THEN [status |-> sc.root_pu, role |-> "User", enable_notifications |-> TRUE]
                 ELSE NoProjectUser]]
          /\ allocation = [a \in Allocations |->
                 IF a = 1 THEN AnAllocation(1, "Active", "r1")
                 ELSE IF a = 2 THEN AnAllocation(2, "New", "r2")
                 ELSE IF a = 3 /\ sc.stray THEN AnAllocation(2, "New", "r1")
                 ELSE NoAllocation]
          /\ allocation_user = [a \in Allocations |-> [x \in Users |->
                 IF a = 1 THEN (IF x = "ann" THEN "Active" ELSE IF x = "bob" THEN sc.bob
                                ELSE sc.root)
                 ELSE IF a = 2 /\ x = "bob" THEN "Active"
                 ELSE IF a = 3 /\ sc.stray /\ x = "ann" THEN "Active"
                 ELSE "None"]]
    /\ allocation_limit = [r \in Resources |-> NoLimit]
    /\ change_request = PendingChangeRequest
    /\ attribute_change = [new_value |-> "v2"]
    /\ allocation_attribute = [value |-> "v1"]
    /\ request = Req("none", "none", "none", 0)
    /\ in_flight = NoRequests
    /\ response = Resp("none", "")
    /\ sent = <<>>

NextMembership ==
    \/ \E u \in Users, a \in Allocations, method \in Methods :
          now < MaxTime /\ AllocationEULAView(u, a, method)
    \/ \E u \in Users, a \in Allocations, method \in Methods :
          now < MaxTime /\ AllocationUsersRemoveView(u, a, method)
    \/ \E u \in Users, p \in Projects, method \in Methods :
          now < MaxTime /\ ProjectAddUsersView(u, p, method)
    \/ \E u \in Users, p \in Projects, method \in Methods :
          now < MaxTime /\ AllocationCreateView(u, p, method)

SpecMembership == InitMembership /\ [][NextMembership]_vars

\* database states ProjectAddUsersView is asked to re-add users in: bob and root were removed
\* from project 1 and have any row, or none, on its allocation 1 (resource with a EULA) and
\* on its allocation 2 (resource without one)
InitEula ==
    /\ \E eula \in BOOLEAN :
          settings = [PROJECT_CODE |-> <<>>, PROJECT_CODE_PADDING |-> 0,
                      ALLOCATION_EULA_ENABLE |-> eula]
    /\ now = 0
    /\ project = [p \in Projects |-> NewProject("Active")]
    /\ project_user = [p \in Projects |-> [x \in Users |->
           IF x = pi[p] THEN PiProjectUser
           ELSE IF p = 1
                THEN [status |-> "Removed", role |-> "User", enable_notifications |-> TRUE]
           ELSE NoProjectUser]]
    /\ allocation = [a \in Allocations |->
           IF a = 1 THEN AnAllocation(1, "Active", "r1")
           ELSE IF a = 2 THEN AnAllocation(1, "Paid", "r2")
           ELSE NoAllocation]
    /\ \E s_bob, s_root \in AllocationUserStatusChoices \cup {"None"} :
          allocation_user = [a \in Allocations |-> [x \in Users |->
                 IF a \in {1, 2}
                 THEN (IF x = "ann" THEN "Active" ELSE IF x = "bob" THEN s_bob ELSE s_root)
                 ELSE "None"]]
    /\ allocation_limit = [r \in Resources |-> NoLimit]
    /\ change_request = PendingChangeRequest
    /\ attribute_change = [new_value |-> "v2"]
    /\ allocation_attribute = [value |-> "v1"]
    /\ request = Req("none", "none", "none", 0)
    /\ in_flight = NoRequests
    /\ response = Resp("none", "")
    /\ sent = <<>>

NextEula ==
    \E u \in Users, p \in Projects, method \in Methods :
       now < MaxTime /\ ProjectAddUsersView(u, p, method)

SpecEula == InitEula /\ [][NextEula]_vars

\* ------------------------------------------------------------------ allocation claims
ChangeViews == {"AllocationDetailView", "AllocationChangeDetailView"}

\* C1: a POST to AllocationDetailView or AllocationChangeDetailView by a user who is not a
\* superuser leaves the allocation, the change request, its attribute change row and the
\* allocation attribute as they were and sends no signal and no email
C1_NonSuperuserPostChangesNothing ==
    [][(request'.view \in ChangeViews /\ request'.method = "POST"
        /\ ~is_superuser(request'.user))
       => (allocation' = allocation /\ change_request' = change_request
           /\ attribute_change' = attribute_change
           /\ allocation_attribute' = allocation_attribute /\ sent' = <<>>)]_vars

\* a non-superuser who passed test_func has posted to AllocationDetailView and was turned away
C1_Witness ==
    /\ request.view = "AllocationDetailView" /\ request.method = "POST"
    /\ ~is_superuser(request.user)
    /\ response = Resp("redirect", "You do not have permission to update the allocation")

\* C8: no request to AllocationCreateView gets a new allocation for a project that needs
\* review or is archived: a request addressed to such a project is redirected, creates no
\* Allocation and no AllocationUser and sends neither the admin email nor allocation_new,
\* and no request leaves such a project with an allocation it did not have
C8_NoAllocationForClosedProject ==
    [][request'.view = "AllocationCreateView"
       => \A p \in Projects :
            (project[p].needs_review \/ project[p].status \notin {"Active", "New"})
                => /\ request'.pk = p
                        => (response'.kind = "redirect" /\ allocation' = allocation
                            /\ allocation_user' = allocation_user /\ sent' = <<>>)
                   /\ allocation_set(allocation', p) = allocation_set(allocation, p)]_vars

\* C9: when the resource of a posted AllocationForm carries an allocation_limit L >= 0, the
\* form is rejected with reached_allocation_limit exactly when the project of the form has
\* at least L allocations on that resource in a counted status
C9_LimitIsEnforced ==
    [][(request'.view = "AllocationCreateView"
        /\ request'.form.resource \in Resources
        /\ allocation_limit[request'.form.resource] # NoLimit)
       => ((response'.message = "reached_allocation_limit")
           <=> (allocation_count(allocation, request'.form.project, request'.form.resource)
                >= allocation_limit[request'.form.resource]))]_vars

\* C4: a formset posted to AllocationUsersRemoveView with a selected form whose user is the
\* PI of the form's project is rejected and changes no AllocationUser row, and after any
\* request to that view no PI has a Removed AllocationUser row on an allocation of the
\* project
C4_PiStaysInAllocation ==
    [][request'.view = "AllocationUsersRemoveView"
       => /\ request'.form.pi_selected
                => (response'.kind = "formset invalid" /\ allocation_user' = allocation_user)
          /\ \A a \in Allocations :
                allocation'[a].status # "None"
                    => allocation_user'[a][pi[allocation'[a].project]] # "Removed"]_vars

C11_EulaStatusIsPendingUnlessActive ==
    [][/\ \A a \in Allocations, u \in Users, s \in AllocationUserStatusChoices \cup {"None"} :
            determine_eula_status_for_allocation_user(
                allocation, [allocation_user EXCEPT ![a][u] = s], a, u)
            = IF /\ settings.ALLOCATION_EULA_ENABLE
                 /\ resource_has_eula(allocation[a].resource)
                 /\ (s = "None" \/ s \in {"PendingEULA", "Removed", "DeclinedEULA", "Error"})
              THEN "PendingEULA" ELSE "Active"
       /\ request'.view = "ProjectAddUsersView"
            => \A a \in request'.form.allocations, u \in request'.form.users :
                 allocation_user'[a][u]
                 = IF /\ settings.ALLOCATION_EULA_ENABLE
                      /\ resource_has_eula(allocation[a].resource)
                      /\ allocation_user[a][u] # "Active"
                   THEN "PendingEULA" ELSE "Active"]_vars

\* with the EULA enabled ProjectAddUsersView has added two users to an allocation that has a
\* EULA: the one who was Active on it is still Active, the other is PendingEULA
C11_Witness ==
    /\ request.view = "ProjectAddUsersView" /\ settings.ALLOCATION_EULA_ENABLE
    /\ \E a \in request.form.allocations, u, v \in request.form.users :
          /\ get_eula(allocation, a)
          /\ allocation_user[a][u] = "Active"
          /\ allocation_user[a][v] = "PendingEULA"

\* C12: a POST to AllocationDetailView that changes the stored status of the allocation to
\* Active sends allocation_activate exactly once, one that changes it to Denied or Revoked
\* sends allocation_disable exactly once, and one whose form is invalid or that leaves the
\* stored status as it was sends no signal and no customer email
C12_TransitionsSendTheirSignals ==
    [][(request'.view = "AllocationDetailView" /\ request'.method = "POST")
       => LET a == request'.pk
              old_status == allocation[a].status
              new_status == allocation'[a].status
              count(name) == Cardinality({i \in DOMAIN sent' : sent'[i].signal = name})
          IN /\ (new_status # old_status /\ new_status = "Active")
                    => count("allocation_activate") = 1
             /\ (new_status # old_status /\ new_status \in {"Denied", "Revoked"})
                    => count("allocation_disable") = 1
             /\ (new_status = old_status \/ response'.kind = "form invalid")
                    => sent' = <<>>]_vars

\* C13: for a resource with allocation_limit L >= 1, however the validations and the saves of
\* allocation requests handled at the same time interleave, no project has more than L
\* allocations on the resource in the statuses AllocationForm.clean counts
C13_LimitHoldsUnderConcurrency ==
    \A p \in Projects, r \in Resources :
        allocation_limit[r] >= 1 => allocation_count(allocation, p, r) <= allocation_limit[r]

====
